---- MODULE Spec2Model ----
(***************************************************************************)
(* Pipeline scheduler of src/images.js (second DOMContentLoaded handler):  *)
(* the question registry, the processing buffer, the rate-limited API      *)
(* call queue with its drain loops, and the processQuestion tasks.         *)
(*                                                                         *)
(* One action is one browser macrotask (page load, a button click, a       *)
(* timer, the arrival of a fetch response, the passing of time) together   *)
(* with every microtask it makes runnable: the continuations of async      *)
(* functions whose awaited promise is already settled run before the next  *)
(* macrotask, in FIFO order.                                               *)
(*                                                                         *)
(* Time: the code only uses Date.now() - lastAPICallTime, compared with    *)
(* RATE_LIMIT_DELAY; the model keeps that difference (timeSinceLastCall),  *)
(* saturated at RATE_LIMIT_DELAY, and the remaining time of each pending   *)
(* setTimeout.                                                             *)
(***************************************************************************)
EXTENDS Integers, Sequences, FiniteSets, TLC

\* ---- bounds of the model ----
MaxQuestions == 4        \* question numbers 1..MaxQuestions have stored images
MaxResets == 1           \* clicks on "Reset Processing"
MaxLoops == 2            \* drain loops unfinished at the same time
TicksPerDelay == 2       \* clock resolution: ticks per RATE_LIMIT_DELAY
MaxSelections == 2       \* file selections made on the capture page
MaxFiles == 3            \* files of one selection

\* ---- program constants ----
BUFFER_SIZE == 3
RATE_LIMIT_DELAY == 2000

TickMs == (RATE_LIMIT_DELAY + TicksPerDelay - 1) \div TicksPerDelay

VARIABLES
    loaded,             \* the DOMContentLoaded handler has run
    savedImages,        \* localStorage 'savedImages': question number of each image
    apiKey,             \* localStorage 'together_api_key' is set
    allQuestions,       \* array of all question numbers
    questionStates,     \* Map questionNumber -> state
    processingBuffer,   \* Set of question numbers currently in buffer
    questionData,       \* Map questionNumber -> {extractedText, solvedText}
    apiCallQueue,       \* queue of pending API calls
    isProcessingQueue,  \* the drain-loop flag
    timeSinceLastCall,  \* Date.now() - lastAPICallTime, saturated
    loops,              \* unfinished executions of processAPIQueue
    remote,             \* the responses the remote service gives in this run
    \* ---- history variables (observations, never read by the program) ----
    resets,             \* number of Reset Processing clicks so far
    submitted,          \* number of calls pushed on apiCallQueue so far
    lastDispatched,     \* submission number of the latest dispatched call (0: none)
    sinceCompletion,    \* time since the latest dispatched call completed (-1: not yet)
    abandoned,          \* writes made by tasks started before the latest reset
    regressed,          \* some write moved a question to an earlier state
    initBuffer,         \* the buffer right after the latest initializeProcessing
    firstSolved,        \* first question solved since the latest initialization
    lastCatch,          \* the latest run of processQuestion's catch block
    crashed,            \* a drain loop destructured the result of shift() on an empty queue
    pending,            \* the promises of rateLimitedAPICall not settled yet, with their awaiters
    misdelivered,       \* an outcome went to a task that did not await that call's promise
    made,               \* <<question, stage>> of the calls submitted since the latest initialization
    resubmitted,        \* a second call was submitted for the same question and stage
    admitted,           \* the questions fillBuffer admitted since the latest initialization
    dropped,            \* the calls that were in the queue when it was cleared
    observed,           \* events seen so far: "stalePassed", "rewritten", "readmitted"
    \* ---- the capture page (first DOMContentLoaded handler) ----
    isSingleImageMode,          \* the mode toggle
    fileQuestionNumberInput,    \* value of the file-question-number input
    selections,                 \* the file selections made: the variables their callbacks close over
    readers,                    \* FileReaders whose onload has not run: << selection, file >>
    storedImages                \* the records addImageToStorage has pushed: {dataUrl, questionNumber}

vars == << loaded, savedImages, apiKey, allQuestions, questionStates,
           processingBuffer, questionData, apiCallQueue, isProcessingQueue,
           timeSinceLastCall, loops, remote, resets, submitted, lastDispatched,
           sinceCompletion, abandoned, regressed, initBuffer,
           firstSolved, lastCatch, crashed, pending, misdelivered, made,
           resubmitted, admitted, dropped, observed, isSingleImageMode, fileQuestionNumberInput, selections,
           readers, storedImages >>

schedulerVars == << loaded, savedImages, apiKey, allQuestions, questionStates,
                    processingBuffer, questionData, apiCallQueue, isProcessingQueue,
                    timeSinceLastCall, loops, remote, resets, submitted,
                    lastDispatched, sinceCompletion, abandoned, regressed, initBuffer,
                    firstSolved, lastCatch, crashed, pending, misdelivered, made,
                    resubmitted, admitted, dropped, observed >>

captureVars == << isSingleImageMode, fileQuestionNumberInput, selections, readers,
                  storedImages >>

\* ---- values ----
Questions == 1..MaxQuestions
Null == "null"
Undefined == "undefined"
Responses == {"ok", "nocontent", "malformed", "status"}
NoTask == [q |-> 0, stage |-> "none", gen |-> 0, extractedText |-> Null]
NoCall == [seq |-> 0, task |-> NoTask]
NoSnap == [q |-> 0, buffer |-> {}]
NoCatch == [q |-> 0, before |-> Undefined, after |-> Undefined,
            evicted |-> FALSE, inBuffer |-> FALSE, full |-> FALSE, unsolvedLeft |-> FALSE]

Min(a, b) == IF a < b THEN a ELSE b
Max(a, b) == IF a > b THEN a ELSE b

\* Map.get / Map.set on a function whose DOMAIN is the set of keys present
MapGet(m, k) == IF k \in DOMAIN m THEN m[k] ELSE Undefined
MapSet(m, k, v) == [x \in (DOMAIN m) \cup {k} |-> IF x = k THEN v ELSE m[x]]
EmptyMap == [x \in {} |-> Undefined]

Rank(st) == CASE st = "unsolved" -> 0
              [] st = "extracted" -> 1
              [] st = "solving" -> 2
              [] st = "solved" -> 3
              [] OTHER -> -1

\* The state the handlers read and write, as one record
Cur == [ allQuestions |-> allQuestions, questionStates |-> questionStates,
         processingBuffer |-> processingBuffer, questionData |-> questionData,
         apiCallQueue |-> apiCallQueue, isProcessingQueue |-> isProcessingQueue,
         timeSinceLastCall |-> timeSinceLastCall, loops |-> loops,
         microtasks |-> << >>,
         resets |-> resets, submitted |-> submitted, lastDispatched |-> lastDispatched,
         sinceCompletion |-> sinceCompletion,
         abandoned |-> abandoned, regressed |-> regressed,
         initBuffer |-> initBuffer, firstSolved |-> firstSolved,
         lastCatch |-> lastCatch, crashed |-> crashed,
         pending |-> pending, misdelivered |-> misdelivered,
         made |-> made, resubmitted |-> resubmitted,
         admitted |-> admitted, dropped |-> dropped, observed |-> observed ]

CommitState(s) ==
    /\ allQuestions' = s.allQuestions
    /\ questionStates' = s.questionStates
    /\ processingBuffer' = s.processingBuffer
    /\ questionData' = s.questionData
    /\ apiCallQueue' = s.apiCallQueue
    /\ isProcessingQueue' = s.isProcessingQueue
    /\ timeSinceLastCall' = s.timeSinceLastCall
    /\ loops' = s.loops
    /\ resets' = s.resets
    /\ submitted' = s.submitted
    /\ lastDispatched' = s.lastDispatched
    /\ sinceCompletion' = s.sinceCompletion
    /\ abandoned' = s.abandoned
    /\ regressed' = s.regressed
    /\ initBuffer' = s.initBuffer
    /\ firstSolved' = s.firstSolved
    /\ lastCatch' = s.lastCatch
    /\ crashed' = s.crashed
    /\ pending' = s.pending
    /\ misdelivered' = s.misdelivered
    /\ made' = s.made
    /\ resubmitted' = s.resubmitted
    /\ admitted' = s.admitted
    /\ dropped' = s.dropped
    /\ observed' = s.observed

Commit(s0) == \E s \in {s0} : CommitState(s)

\* renderQuestionButtons: the unique question numbers in order of first appearance
RECURSIVE uniqueQuestions(_, _)
uniqueQuestions(images, acc) ==
    IF images = << >> THEN acc
    ELSE IF \E i \in 1..Len(acc) : acc[i] = Head(images)
         THEN uniqueQuestions(Tail(images), acc)
         ELSE uniqueQuestions(Tail(images), Append(acc, Head(images)))

\* getQuestionImages(q).length
getQuestionImages(q) == Cardinality({i \in 1..Len(savedImages) : savedImages[i] = q})

RemoveAt(seq, i) == [j \in 1..(Len(seq) - 1) |-> IF j < i THEN seq[j] ELSE seq[j + 1]]

\* Evaluate e once and apply F to its value (the handlers below pass the
\* state along a chain of calls; each call reads it several times)
Strict(e, F(_)) == CHOOSE r \in {F(v) : v \in {e}} : TRUE

\* questionStates.set(q, st) inside processQuestion, by task t
setState(s0, t, st) == Strict(s0, LAMBDA s :
    [s EXCEPT !.questionStates = MapSet(@, t.q, st),
              !.regressed = @ \/ Rank(st) < Rank(MapGet(s.questionStates, t.q)),
              !.abandoned = IF t.gen < s.resets /\ st = "solved" THEN @ \cup {st} ELSE @,
              !.observed = IF t.gen < s.resets THEN @ \cup {"stalePassed"} ELSE @])

\* apiCallQueue.shift(): the entry taken and the queue left
popLast(queue) == [call |-> queue[Len(queue)], rest |-> SubSeq(queue, 1, Len(queue) - 1)]
shift(queue) == [call |-> Head(queue), rest |-> Tail(queue)]

\* the body of one iteration of processAPIQueue after the rate-limit wait:
\* apiCallQueue.shift() and the start of apiCallFunction()
startCall(s0) == Strict(s0, LAMBDA s :
    [s EXCEPT !.apiCallQueue = shift(s.apiCallQueue).rest,
              !.lastDispatched = shift(s.apiCallQueue).call.seq,
              !.sinceCompletion = -1])

\* processAPIQueue from its entry to its first suspension
processAPIQueue(s0) == Strict(s0, LAMBDA s :
    IF s.isProcessingQueue \/ s.apiCallQueue = << >> THEN s
    ELSE
      IF s.timeSinceLastCall < RATE_LIMIT_DELAY
      THEN [s EXCEPT !.isProcessingQueue = TRUE,
                     !.loops = Append(@, [st |-> "waiting",
                                          waitTime |-> RATE_LIMIT_DELAY - s.timeSinceLastCall,
                                          call |-> NoCall])]
      ELSE [startCall(s) EXCEPT !.isProcessingQueue = TRUE,
                     !.loops = Append(@, [st |-> "calling", waitTime |-> 0,
                                          call |-> shift(s.apiCallQueue).call])])

\* rateLimitedAPICall: push the call, start a drain loop if none is flagged
rateLimitedAPICall(s0, t) == Strict(s0, LAMBDA s :
    processAPIQueue([s EXCEPT !.apiCallQueue = Append(@, [seq |-> s.submitted + 1, task |-> t]),
                              !.submitted = @ + 1,
                              !.pending = @ \cup {[seq |-> s.submitted + 1, task |-> t]},
                              !.resubmitted = @ \/ << t.q, t.stage >> \in s.made,
                              !.made = @ \cup {<< t.q, t.stage >>}]))

\* an async function returned without a remote call: its awaiter continues
\* in a microtask
settleNow(s, t, result) ==
    [s EXCEPT !.microtasks = Append(@, [task |-> t, result |-> result])]

\* extract(q) up to its suspension
extractIgnoringKey(s, t) ==
    IF getQuestionImages(t.q) = 0 THEN settleNow(s, t, "Error: No images")
    ELSE rateLimitedAPICall(s, t)
extract(s, t) ==
    IF ~apiKey THEN settleNow(s, t, "Error: API key")
    ELSE IF getQuestionImages(t.q) = 0 THEN settleNow(s, t, "Error: No images")
    ELSE rateLimitedAPICall(s, t)

\* solve(q, extractedText) up to its suspension
solve(s, t) ==
    IF ~apiKey THEN settleNow(s, t, "Error: API key")
    ELSE rateLimitedAPICall(s, t)

\* processQuestion(q) from its entry to the await of extract
processQuestion(s0, q) == Strict(s0, LAMBDA s :
    LET t == [q |-> q, stage |-> "extract", gen |-> s.resets, extractedText |-> Null]
    IN extract(setState([s EXCEPT !.questionData =
                            MapSet(@, q, [extractedText |-> Null, solvedText |-> Null])],
                        t, "extracted"), t))

\* `for (const questionNumber of allQuestions)`: the order of the scan
scanReversed(questions) == [i \in 1..Len(questions) |-> questions[Len(questions) + 1 - i]]
scan(questions) == questions

\* fillBuffer's test of a question before admitting it
admissibleUnlessSolved(s, questionNumber) == MapGet(s.questionStates, questionNumber) # "solved"
admissible(s, questionNumber) == MapGet(s.questionStates, questionNumber) = "unsolved"

RECURSIVE fillLoop(_, _, _, _)
fillLoop(s0, i, added, bufferSpaceAvailable) == Strict(s0, LAMBDA s :
    IF i > Len(s.allQuestions) \/ added >= bufferSpaceAvailable THEN s
    ELSE IF admissible(s, scan(s.allQuestions)[i])
         THEN fillLoop(processQuestion([s EXCEPT !.processingBuffer =
                                            @ \cup {scan(s.allQuestions)[i]},
                                          !.admitted = @ \cup {scan(s.allQuestions)[i]},
                                          !.observed =
                                            IF scan(s.allQuestions)[i] \in s.admitted
                                            THEN @ \cup {"readmitted"} ELSE @],
                                       scan(s.allQuestions)[i]),
                       i + 1, added + 1, bufferSpaceAvailable)
         ELSE fillLoop(s, i + 1, added, bufferSpaceAvailable))

fillBufferUnbounded(s0) == Strict(s0, LAMBDA s : fillLoop(s, 1, 0, Len(s.allQuestions)))
fillBuffer(s0) == Strict(s0, LAMBDA s :
    IF BUFFER_SIZE - Cardinality(s.processingBuffer) <= 0 THEN s
    ELSE fillLoop(s, 1, 0, BUFFER_SIZE - Cardinality(s.processingBuffer)))

\* what a run of the catch block of processQuestion leaves behind: s before,
\* s1 after
catchRecord(s, s1, t) ==
    [q |-> t.q,
     before |-> MapGet(s.questionStates, t.q),
     after |-> MapGet(s1.questionStates, t.q),
     evicted |-> t.q \notin s.processingBuffer,
     inBuffer |-> t.q \in s1.processingBuffer,
     full |-> Cardinality(s1.processingBuffer) >= BUFFER_SIZE,
     unsolvedLeft |-> \E i \in 1..Len(s1.allQuestions) :
                        MapGet(s1.questionStates, s1.allQuestions[i]) = "unsolved"]

\* the catch block of processQuestion
catchBlockClear(s0, t) == Strict(s0, LAMBDA s :
    Strict(fillBuffer([s EXCEPT !.processingBuffer = {}]), LAMBDA s1 :
        [s1 EXCEPT !.lastCatch = catchRecord(s, s1, t)]))
catchBlock(s0, t) == Strict(s0, LAMBDA s :
    Strict(fillBuffer([s EXCEPT !.processingBuffer = @ \ {t.q}]), LAMBDA s1 :
        [s1 EXCEPT !.lastCatch = catchRecord(s, s1, t)]))

\* the eviction check of processQuestion
neverEvicted(s, t) == TRUE
stillInBuffer(s, t) == t.q \in s.processingBuffer

\* processQuestion after `await extract(q)` returned result
afterExtract(s0, t, result) == Strict(s0, LAMBDA s :
    IF t.q \notin DOMAIN s.questionData THEN catchBlock(s, t)   \* data is undefined
    ELSE Strict([s EXCEPT !.questionData[t.q].extractedText = result,
                          !.observed = IF MapGet(s.questionStates, t.q) = "solved"
                                       THEN @ \cup {"rewritten"} ELSE @], LAMBDA s1 :
         IF ~stillInBuffer(s1, t) THEN s1
         ELSE solve(setState(s1, t, "solving"),
                    [t EXCEPT !.stage = "solve", !.extractedText = result])))

\* the end of processQuestion: solved, out of the buffer, refill
finishNoRefill(s0, t) == Strict(s0, LAMBDA s :
    Strict([setState(s, t, "solved") EXCEPT !.processingBuffer = @ \ {t.q}],
           LAMBDA s3 :
        [s3 EXCEPT !.firstSolved = IF @ = NoSnap
                                   THEN [q |-> t.q, buffer |-> s3.processingBuffer]
                                   ELSE @]))
finishKeepInBuffer(s0, t) == Strict(s0, LAMBDA s :
    Strict(fillBuffer(setState(s, t, "solved")), LAMBDA s3 :
        [s3 EXCEPT !.firstSolved = IF @ = NoSnap
                                   THEN [q |-> t.q, buffer |-> s3.processingBuffer]
                                   ELSE @]))
finish(s0, t) == Strict(s0, LAMBDA s :
    Strict(fillBuffer([setState(s, t, "solved") EXCEPT !.processingBuffer = @ \ {t.q}]),
           LAMBDA s3 :
        [s3 EXCEPT !.firstSolved = IF @ = NoSnap
                                   THEN [q |-> t.q, buffer |-> s3.processingBuffer]
                                   ELSE @]))

\* processQuestion after `await solve(q, extractedText)` returned result
afterSolve(s0, t, result) == Strict(s0, LAMBDA s :
    IF t.q \notin DOMAIN s.questionData THEN catchBlock(s, t)   \* updatedData is undefined
    ELSE Strict([s EXCEPT !.questionData[t.q].solvedText = result,
                          !.observed = IF MapGet(s.questionStates, t.q) = "solved"
                                       THEN @ \cup {"rewritten"} ELSE @,
                          !.abandoned = IF t.gen < s.resets
                                        THEN @ \cup {"solvedText"} ELSE @], LAMBDA s1 :
         IF ~stillInBuffer(s1, t) THEN s1 ELSE finish(s1, t)))

resumeRaising(s, t, result) ==
    IF result \in {"Error: API key", "Error: No images", "Error: API call failed"}
    THEN catchBlock(s, t)
    ELSE IF t.stage = "extract" THEN afterExtract(s, t, result)
    ELSE afterSolve(s, t, result)
resume(s, t, result) ==
    IF t.stage = "extract" THEN afterExtract(s, t, result)
    ELSE afterSolve(s, t, result)

\* run the microtask queue to exhaustion
RECURSIVE runMicrotasks(_)
runMicrotasks(s0) == Strict(s0, LAMBDA s :
    IF s.microtasks = << >> THEN s
    ELSE runMicrotasks(resume([s EXCEPT !.microtasks = Tail(@)],
                              Head(s.microtasks).task, Head(s.microtasks).result)))

\* apiCallQueue.length = 0
keepQueue(s) ==
    [s EXCEPT !.dropped = @ \cup {s.apiCallQueue[i] : i \in 1..Len(s.apiCallQueue)}]
clearQueue(s) ==
    [s EXCEPT !.dropped = @ \cup {s.apiCallQueue[i] : i \in 1..Len(s.apiCallQueue)},
              !.apiCallQueue = << >>]

initializeProcessing(s0) == Strict(s0, LAMBDA s :
    Strict(fillBuffer([clearQueue(s) EXCEPT
                !.questionStates = [q \in {s.allQuestions[i] : i \in 1..Len(s.allQuestions)}
                                        |-> "unsolved"],
                !.processingBuffer = {},
                !.isProcessingQueue = FALSE,
                !.timeSinceLastCall = RATE_LIMIT_DELAY,
                !.firstSolved = NoSnap,
                !.made = {},
                !.admitted = {}]), LAMBDA s2 :
        [s2 EXCEPT !.initBuffer = s2.processingBuffer]))

\* callTogetherAPI's apiCallFunction: what the awaiting extract/solve returns
\* for each kind of remote response
callResult(resp) ==
    CASE resp = "ok" -> "content"
      [] resp = "nocontent" -> Undefined
      [] resp = "malformed" -> "Error: Invalid response format"
      [] resp = "status" -> "Error: API call failed"

\* ---- actions ----

\* DOMContentLoaded: renderQuestionButtons
Load ==
    /\ ~loaded
    /\ loaded' = TRUE
    /\ IF savedImages = << >>
       THEN Commit(Cur)
       ELSE Commit(runMicrotasks(initializeProcessing(
                [Cur EXCEPT !.allQuestions = uniqueQuestions(savedImages, << >>)])))
    /\ UNCHANGED captureVars
    /\ UNCHANGED << savedImages, apiKey, remote >>

\* resetButton.onclick
ResetClick ==
    /\ loaded
    /\ resets < MaxResets
    /\ Len(loops) < MaxLoops
    /\ Commit(runMicrotasks(initializeProcessing(
            [clearQueue(Cur) EXCEPT
                        !.processingBuffer = {},
                        !.questionStates = EmptyMap,
                        !.questionData = EmptyMap,
                        !.isProcessingQueue = FALSE,
                        !.timeSinceLastCall = RATE_LIMIT_DELAY,
                        !.resets = @ + 1])))
    /\ UNCHANGED captureVars
    /\ UNCHANGED << loaded, savedImages, apiKey, remote >>

\* save-api-key-btn click with a non-empty key
SaveAPIKey ==
    /\ loaded
    /\ ~apiKey
    /\ apiKey' = TRUE
    /\ UNCHANGED captureVars
    /\ UNCHANGED << loaded, savedImages, remote, allQuestions, questionStates,
                    processingBuffer, questionData, apiCallQueue, isProcessingQueue,
                    timeSinceLastCall, loops, resets, submitted, lastDispatched,
                    sinceCompletion, abandoned, regressed, initBuffer,
                    firstSolved, lastCatch, crashed, pending, misdelivered,
                    made, resubmitted, admitted, dropped, observed >>

\* clear-images-btn click
ClearImages ==
    /\ loaded
    /\ savedImages # << >>
    /\ savedImages' = << >>
    /\ UNCHANGED captureVars
    /\ UNCHANGED << loaded, apiKey, remote, allQuestions, questionStates,
                    processingBuffer, questionData, apiCallQueue, isProcessingQueue,
                    timeSinceLastCall, loops, resets, submitted, lastDispatched,
                    sinceCompletion, abandoned, regressed, initBuffer,
                    firstSolved, lastCatch, crashed, pending, misdelivered,
                    made, resubmitted, admitted, dropped, observed >>

\* the setTimeout of a waiting drain loop fires: shift and start the call
TimerFire(i) ==
    /\ loops[i].st = "waiting"
    /\ loops[i].waitTime = 0
    /\ IF apiCallQueue = << >>
       THEN Commit([Cur EXCEPT !.loops = RemoveAt(@, i), !.crashed = TRUE])
       ELSE Commit([startCall(Cur) EXCEPT
                        !.loops[i] = [st |-> "calling", waitTime |-> 0,
                                      call |-> shift(apiCallQueue).call]])
    /\ UNCHANGED captureVars
    /\ UNCHANGED << loaded, savedImages, apiKey, remote >>

\* the rest of processAPIQueue's loop body after `await apiCallFunction()`,
\* and the next evaluation of the while condition
afterCallStop(s0, i) == Strict(s0, LAMBDA s :
    [s EXCEPT !.timeSinceLastCall = 0,
              !.sinceCompletion = IF s.loops[i].call.seq = s.lastDispatched THEN 0 ELSE @,
              !.loops = RemoveAt(@, i),
              !.isProcessingQueue = FALSE])
afterCall(s0, i) == Strict(s0, LAMBDA s :
    Strict([s EXCEPT !.timeSinceLastCall = 0,
                     !.sinceCompletion =
                            IF s.loops[i].call.seq = s.lastDispatched THEN 0 ELSE @],
           LAMBDA s1 :
       IF s1.apiCallQueue # << >>
       THEN [s1 EXCEPT !.loops[i] = [st |-> "waiting", waitTime |-> RATE_LIMIT_DELAY,
                                     call |-> NoCall]]
       ELSE [s1 EXCEPT !.loops = RemoveAt(@, i), !.isProcessingQueue = FALSE]))

\* resolve(result) / reject(error) of the entry the drain loop took from the
\* queue: the task awaiting that entry's promise continues
resolveQueueHead(s0, i, result) == Strict(s0, LAMBDA s :
    LET to == IF s.apiCallQueue # << >> THEN Head(s.apiCallQueue).task
              ELSE s.loops[i].call.task
    IN settleNow([s EXCEPT !.pending = @ \ {s.loops[i].call},
                           !.misdelivered = @ \/ [seq |-> s.loops[i].call.seq,
                                                   task |-> to] \notin s.pending],
                 to, result))
resolve(s0, i, result) == Strict(s0, LAMBDA s :
    settleNow([s EXCEPT !.pending = @ \ {s.loops[i].call},
                        !.misdelivered = @ \/ s.loops[i].call \notin s.pending],
              s.loops[i].call.task, result))

\* the remote call of a drain loop completes with response resp
CallComplete(i, resp) ==
    /\ loops[i].st = "calling"
    /\ Commit(runMicrotasks(afterCall(resolve(Cur, i, callResult(resp)), i)))
    /\ UNCHANGED captureVars
    /\ UNCHANGED << loaded, savedImages, apiKey, remote >>

\* time passes
Tick ==
    /\ \A i \in 1..Len(loops) : ~(loops[i].st = "waiting" /\ loops[i].waitTime = 0)
    /\ \/ timeSinceLastCall < RATE_LIMIT_DELAY
       \/ sinceCompletion \in 0..(RATE_LIMIT_DELAY - 1)
       \/ \E i \in 1..Len(loops) : loops[i].waitTime > 0
    /\ timeSinceLastCall' = Min(RATE_LIMIT_DELAY, timeSinceLastCall + TickMs)
    /\ sinceCompletion' = IF sinceCompletion < 0 THEN sinceCompletion
                          ELSE Min(RATE_LIMIT_DELAY, sinceCompletion + TickMs)
    /\ loops' = [i \in 1..Len(loops) |->
                    [loops[i] EXCEPT !.waitTime = Max(0, @ - TickMs)]]
    /\ UNCHANGED captureVars
    /\ UNCHANGED << loaded, savedImages, apiKey, remote, allQuestions, questionStates,
                    processingBuffer, questionData, apiCallQueue, isProcessingQueue,
                    resets, submitted, lastDispatched, abandoned, regressed,
                    initBuffer, firstSolved, lastCatch, crashed, pending,
                    misdelivered, made, resubmitted, admitted, dropped, observed >>

\* ---- the capture page ----
\* A string is the sequence of its character codes.

IsLetter(c) == c \in 65..90 \/ c \in 97..122      \* /[A-Za-z]/
IsDigit(c) == c \in 48..57                         \* \d

\* String.prototype.trim
RECURSIVE trim(_)
trim(str) ==
    IF str = << >> THEN str
    ELSE IF Head(str) = 32 THEN trim(Tail(str))
    ELSE IF str[Len(str)] = 32 THEN trim(SubSeq(str, 1, Len(str) - 1))
    ELSE str

\* parseInt(digits, 10)
RECURSIVE parseInt(_)
parseInt(digits) ==
    IF digits = << >> THEN 0
    ELSE parseInt(SubSeq(digits, 1, Len(digits) - 1)) * 10 + (digits[Len(digits)] - 48)

\* the decimal digits of a number, as string concatenation writes them
RECURSIVE toString(_)
toString(n) ==
    IF n < 10 THEN << 48 + n >> ELSE toString(n \div 10) \o << 48 + (n % 10) >>

\* questionNumber.match(/\d+$/): the 1-based position where the trailing
\* run of digits starts (Len + 1: no match)
matchIndex(str) ==
    CHOOSE k \in 1..(Len(str) + 1) :
        /\ \A j \in k..Len(str) : IsDigit(str[j])
        /\ (k > 1 => ~IsDigit(str[k - 1]))

incrementQuestionNumber(questionNumber) ==
    IF questionNumber = << >> THEN << 49 >>
    ELSE LET lastChar == questionNumber[Len(questionNumber)]
             nextCharCode == lastChar + 1
             k == matchIndex(questionNumber)
         IN IF IsLetter(lastChar)
            THEN LET prefix == SubSeq(questionNumber, 1, Len(questionNumber) - 1)
                 IN IF nextCharCode > 90 /\ nextCharCode < 97 THEN prefix \o << 65 >>
                    ELSE IF nextCharCode > 122 THEN prefix \o << 97 >>
                    ELSE prefix \o << nextCharCode >>
            ELSE IF k <= Len(questionNumber)
            THEN SubSeq(questionNumber, 1, k - 1)
                    \o toString(parseInt(SubSeq(questionNumber, k, Len(questionNumber))) + 1)
            ELSE questionNumber \o << 49 >>

addImageToStorage(images, dataUrl, questionNumber) ==
    Append(images, [dataUrl |-> dataUrl, questionNumber |-> questionNumber])

\* what the user types into the file-question-number input:
\* "", "9", "Z", "z", "Q9", "-", " 07 "
TypedValues ==
    { << >>, << 57 >>, << 90 >>, << 122 >>, << 81, 57 >>, << 45 >>,
      << 32, 48, 55, 32 >> }

\* reader.onload of single-image mode: the variables of the change handler
\* after it ran for the file being read
onloadSingleKeepNumber(sel) == [sel EXCEPT !.fileIndex = @ + 1]
onloadSingle(sel) ==
    [sel EXCEPT !.questionNumber = incrementQuestionNumber(@), !.fileIndex = @ + 1]

\* modeToggle change
ModeToggle ==
    /\ isSingleImageMode' = ~isSingleImageMode
    /\ UNCHANGED << fileQuestionNumberInput, selections, readers, storedImages >>
    /\ UNCHANGED schedulerVars

\* the user edits the file-question-number input
TypeQuestionNumber ==
    /\ Len(selections) < MaxSelections
    /\ \E v \in TypedValues \ {fileQuestionNumberInput} : fileQuestionNumberInput' = v
    /\ UNCHANGED << isSingleImageMode, selections, readers, storedImages >>
    /\ UNCHANGED schedulerVars

\* fileInput change: n files were selected
FileChange ==
    /\ Len(selections) < MaxSelections
    /\ \E n \in 1..MaxFiles :
        LET questionNumber == trim(fileQuestionNumberInput)
            k == Len(selections) + 1
            sel == [single |-> isSingleImageMode, files |-> n, fileIndex |-> 0,
                    questionNumber |-> questionNumber, start |-> questionNumber]
        IN /\ selections' = Append(selections, sel)
           /\ IF isSingleImageMode
              THEN /\ readers' = readers \cup {<< k, 1 >>}
                   /\ UNCHANGED fileQuestionNumberInput
              ELSE /\ readers' = readers \cup {<< k, f >> : f \in 1..n}
                   /\ fileQuestionNumberInput' = << >>
    /\ UNCHANGED << isSingleImageMode, storedImages >>
    /\ UNCHANGED schedulerVars

\* reader.onload of one of the FileReaders that are reading
ReaderLoad ==
    /\ \E r \in readers :
        LET k == r[1]
            sel == selections[k]
        IN /\ storedImages' = addImageToStorage(storedImages, r, sel.questionNumber)
           /\ IF sel.single
              THEN /\ selections' = [selections EXCEPT ![k] = onloadSingle(sel)]
                   /\ fileQuestionNumberInput' = onloadSingle(sel).questionNumber
                   /\ readers' = (readers \ {r}) \cup
                            (IF onloadSingle(sel).fileIndex < sel.files
                             THEN {<< k, onloadSingle(sel).fileIndex + 1 >>} ELSE {})
              ELSE /\ readers' = readers \ {r}
                   /\ UNCHANGED << selections, fileQuestionNumberInput >>
    /\ UNCHANGED isSingleImageMode
    /\ UNCHANGED schedulerVars

CaptureInit ==
    /\ isSingleImageMode = FALSE
    /\ fileQuestionNumberInput = << >>
    /\ selections = << >>
    /\ readers = {}
    /\ storedImages = << >>

Init ==
    /\ loaded = FALSE
    /\ \E k \in 0..MaxQuestions : savedImages = [i \in 1..k |-> i]
    /\ apiKey \in BOOLEAN
    /\ allQuestions = << >>
    /\ questionStates = EmptyMap
    /\ processingBuffer = {}
    /\ questionData = EmptyMap
    /\ apiCallQueue = << >>
    /\ isProcessingQueue = FALSE
    /\ timeSinceLastCall = RATE_LIMIT_DELAY
    /\ loops = << >>
    /\ \E r \in {"ok", "status"} : remote = {r}
    /\ resets = 0
    /\ submitted = 0
    /\ lastDispatched = 0
    /\ sinceCompletion = RATE_LIMIT_DELAY
    /\ abandoned = {}
    /\ regressed = FALSE
    /\ initBuffer = {}
    /\ firstSolved = NoSnap
    /\ lastCatch = NoCatch
    /\ crashed = FALSE
    /\ pending = {}
    /\ misdelivered = FALSE
    /\ made = {}
    /\ resubmitted = FALSE
    /\ admitted = {}
    /\ dropped = {}
    /\ observed = {}
    /\ CaptureInit

\* some due timer fires
TimerFires == \E i \in 1..Len(loops) : TimerFire(i)

\* some remote call completes, with one of the responses of the service
CallCompletes == \E i \in 1..Len(loops), resp \in remote : CallComplete(i, resp)

Next ==
    \/ Load
    \/ ResetClick
    \/ SaveAPIKey
    \/ ClearImages
    \/ TimerFires
    \/ CallCompletes
    \/ Tick

Spec == Init /\ [][Next]_vars

\* The same program when the Reset Processing button is never clicked
NextNoReset ==
    \/ Load
    \/ SaveAPIKey
    \/ ClearImages
    \/ TimerFires
    \/ CallCompletes
    \/ Tick

\* The page loads, time passes, due timers fire and every remote call completes
Fairness ==
    /\ WF_vars(Load)
    /\ WF_vars(Tick)
    /\ WF_vars(TimerFires)
    /\ WF_vars(CallCompletes)

LiveSpec == Init /\ [][NextNoReset]_vars /\ Fairness

FairSpec == Init /\ [][Next]_vars /\ Fairness

\* The same program when the remote service may answer every call with any
\* of its responses, and the Reset Processing button is never clicked
ServiceInit ==
    /\ loaded = FALSE
    /\ \E k \in 0..MaxQuestions : savedImages = [i \in 1..k |-> i]
    /\ apiKey \in BOOLEAN
    /\ allQuestions = << >>
    /\ questionStates = EmptyMap
    /\ processingBuffer = {}
    /\ questionData = EmptyMap
    /\ apiCallQueue = << >>
    /\ isProcessingQueue = FALSE
    /\ timeSinceLastCall = RATE_LIMIT_DELAY
    /\ loops = << >>
    /\ remote = Responses
    /\ resets = 0
    /\ submitted = 0
    /\ lastDispatched = 0
    /\ sinceCompletion = RATE_LIMIT_DELAY
    /\ abandoned = {}
    /\ regressed = FALSE
    /\ initBuffer = {}
    /\ firstSolved = NoSnap
    /\ lastCatch = NoCatch
    /\ crashed = FALSE
    /\ pending = {}
    /\ misdelivered = FALSE
    /\ made = {}
    /\ resubmitted = FALSE
    /\ admitted = {}
    /\ dropped = {}
    /\ observed = {}
    /\ CaptureInit

ServiceSpec == ServiceInit /\ [][NextNoReset]_vars /\ Fairness

\* The capture page: the mode toggle, the question-number input and the
\* file input with its FileReaders
CaptureNext ==
    \/ ModeToggle
    \/ TypeQuestionNumber
    \/ FileChange
    \/ ReaderLoad

\* the capture page alone: nothing is stored yet and the scheduler page is
\* not open
CaptureInit0 ==
    /\ Init
    /\ savedImages = << >>
    /\ apiKey = FALSE
    /\ remote = {"ok"}

CaptureSpec == CaptureInit0 /\ [][CaptureNext]_vars

\* ---- observations used by the properties ----
InFlight == {i \in 1..Len(loops) : loops[i].st = "calling"}
StateOf(q) == MapGet(questionStates, q)
AllSolved ==
    /\ loaded
    /\ processingBuffer = {}
    /\ \A i \in 1..Len(allQuestions) : StateOf(allQuestions[i]) = "solved"
FirstQuestions(n) == {allQuestions[i] : i \in 1..Min(n, Len(allQuestions))}

\* ---- properties ----

\* C1: in every reachable state the processing buffer holds at most
\* BUFFER_SIZE question numbers, whatever the interleaving of loading,
\* resets, admissions, task completions and task failures.
BufferCapacity == Cardinality(processingBuffer) <= BUFFER_SIZE

\* the buffer is full after a reset, with more questions than slots
BufferFullAfterReset ==
    /\ Cardinality(processingBuffer) = BUFFER_SIZE
    /\ Len(allQuestions) > BUFFER_SIZE
    /\ resets > 0
    /\ Len(loops) > 1

\* C2: at most one dequeued apiCallFunction has started and not yet
\* completed at any time.
AtMostOneCallInFlight == Cardinality(InFlight) <= 1

\* C3: a call is dispatched only when the previously dispatched call has
\* completed, and completed at least RATE_LIMIT_DELAY ago.
RateFloor ==
    [][lastDispatched' # lastDispatched => sinceCompletion >= RATE_LIMIT_DELAY]_vars

\* C4: calls are dispatched in the order of their submission: the call
\* dispatched is later than the previously dispatched one and earlier than
\* every call still queued, and as long as no reset emptied the queue no
\* submission is skipped.
FifoDispatch ==
    [][lastDispatched' # lastDispatched =>
        /\ lastDispatched' > lastDispatched
        /\ \A i \in 1..Len(apiCallQueue') : apiCallQueue'[i].seq > lastDispatched'
        /\ (resets' = 0 => lastDispatched' = lastDispatched + 1)]_vars

\* calls of both stages and of different questions wait behind a dispatched call
MixedQueueDispatched ==
    /\ lastDispatched >= 2
    /\ \E i, j \in 1..Len(apiCallQueue) :
        /\ apiCallQueue[i].task.stage = "extract"
        /\ apiCallQueue[j].task.stage = "solve"
        /\ apiCallQueue[i].task.q # apiCallQueue[j].task.q

\* C5: at most one execution of processAPIQueue is unfinished at any time.
SingleDrainLoop == Len(loops) <= 1

\* C6: a task that was suspended on its call when a reset emptied the buffer
\* never sets solvedText and never sets the state of its question to solved.
AbandonedTaskNeverSolves == abandoned = {}

\* C7: between two resets no write to questionStates moves a question to an
\* earlier state of unsolved -> extracted -> solving -> solved.
StateMonotone ==
    [][/\ ~regressed'
       /\ resets' = resets =>
            \A q \in DOMAIN questionStates :
                Rank(MapGet(questionStates', q)) >= Rank(questionStates[q])]_vars

\* a task started before the latest reset has written a question state
StaleTaskWroteState == "solved" \in abandoned /\ ~regressed

\* C8: without resets, every question is eventually solved and the buffer
\* is eventually empty.
RefillCompletes == <>AllSolved

\* more questions than slots were all solved through remote calls
AllSolvedByCalls ==
    /\ AllSolved
    /\ Len(allQuestions) > BUFFER_SIZE
    /\ lastDispatched = 2 * Len(allQuestions)

\* C9: questions are admitted in the order of allQuestions: the questions
\* that left unsolved form a prefix of allQuestions, the buffer right after
\* initialization holds the first BUFFER_SIZE questions, and when the first
\* question is solved its slot goes to question BUFFER_SIZE + 1.
AdmissionOrder ==
    /\ \A i, j \in 1..Len(allQuestions) :
            (i < j /\ StateOf(allQuestions[j]) # "unsolved")
                => StateOf(allQuestions[i]) # "unsolved"
    /\ initBuffer = FirstQuestions(BUFFER_SIZE)
    /\ (resets = 0 /\ firstSolved # NoSnap) =>
            /\ firstSolved.q = allQuestions[1]
            /\ firstSolved.buffer = FirstQuestions(BUFFER_SIZE + 1) \ {allQuestions[1]}

\* questions 1..4: the buffer was {1,2,3}, and {2,3,4} right after 1 was solved
FourQuestionScenario ==
    /\ allQuestions = << 1, 2, 3, 4 >>
    /\ initBuffer = {1, 2, 3}
    /\ firstSolved = [q |-> 1, buffer |-> {2, 3, 4}]

NoCredentialDegraded ==
    (loaded /\ ~apiKey) =>
        /\ AllSolved
        /\ \A i \in 1..Len(allQuestions) :
                MapGet(questionData, allQuestions[i]).extractedText = "Error: API key"

\* more questions than slots were solved without an API key
SolvedWithoutKey ==
    /\ loaded /\ ~apiKey
    /\ Len(allQuestions) > BUFFER_SIZE
    /\ AllSolved
    /\ \A i \in 1..Len(allQuestions) :
            MapGet(questionData, allQuestions[i]).extractedText = "Error: API key"

\* C14: for every question, solvedText is non-null only if extractedText is
\* non-null.
SolvedTextNeedsExtractedText ==
    \A q \in DOMAIN questionData :
        questionData[q].solvedText # Null => questionData[q].extractedText # Null

\* C12: no failure of extract or solve reaches the catch block of
\* processQuestion: whatever the key, the images and the remote responses,
\* a task that is extracting goes on to solving and a task that is solving
\* goes on to solved.
PlaceholderKeepsTaskGoing ==
    /\ [](lastCatch = NoCatch)
    /\ \A q \in Questions :
         /\ (StateOf(q) = "extracted") ~> (StateOf(q) \in {"solving", "solved"})
         /\ (StateOf(q) = "solving") ~> (StateOf(q) = "solved")

\* questions were solved after a remote failure and after their images were gone
SolvedOnPlaceholders ==
    /\ AllSolved
    /\ \E q \in DOMAIN questionData :
            /\ questionData[q].extractedText = "Error: API call failed"
            /\ questionData[q].solvedText = "Error: API call failed"
    /\ \E q \in DOMAIN questionData : questionData[q].extractedText = "Error: No images"

\* C13: the outcome of a call is delivered to the task that awaits the
\* promise of that call's submission and to no other, and every submitted
\* call is eventually dispatched, also when the calls before it failed.
OutcomeToSubmitter ==
    /\ [](~misdelivered)
    /\ \A n \in 1..(2 * MaxQuestions) : (submitted >= n) ~> (lastDispatched >= n)

\* every call failed, and every call submitted behind a failed one was
\* dispatched and its failure delivered
DispatchedBehindFailures ==
    /\ remote = {"status"}
    /\ Len(allQuestions) > BUFFER_SIZE
    /\ submitted = 2 * Len(allQuestions)
    /\ lastDispatched = submitted
    /\ pending = {}
    /\ \A q \in DOMAIN questionData :
            questionData[q].solvedText = "Error: API call failed"

\* C15: in every state, two invocations of initializeProcessing in
\* succession leave the question states, the buffer and the queued calls
\* that one invocation leaves, and no more drain loops or calls in flight.
InitializeTwiceAsOnce ==
    LET once == runMicrotasks(initializeProcessing(Cur))
        twice == runMicrotasks(initializeProcessing(initializeProcessing(Cur)))
        Queued(s) == [i \in 1..Len(s.apiCallQueue) |->
                        << s.apiCallQueue[i].task.q, s.apiCallQueue[i].task.stage >>]
        Calling(s) == {i \in 1..Len(s.loops) : s.loops[i].st = "calling"}
    IN loaded =>
        /\ twice.questionStates = once.questionStates
        /\ twice.processingBuffer = once.processingBuffer
        /\ Queued(twice) = Queued(once)
        /\ Len(twice.loops) <= Len(once.loops)
        /\ Cardinality(Calling(twice)) <= Cardinality(Calling(once))

\* C16: no extract and no solve returns an undefined result: a response
\* without the content field ends as placeholder error text.
MissingContentIsError ==
    \A q \in DOMAIN questionData :
        /\ questionData[q].extractedText # Undefined
        /\ questionData[q].solvedText # Undefined

\* C17: a task that resumes when its question is no longer in the buffer
\* stops: it never runs the catch block of processQuestion, which deletes
\* from the buffer and invokes fillBuffer.
EvictedTaskStops == lastCatch # NoCatch => ~lastCatch.evicted

\* C18: every question in the buffer is in state extracted or solving; an
\* unsolved or a solved question is never in the buffer.
BufferMembersActive ==
    \A q \in processingBuffer : StateOf(q) \in {"extracted", "solving"}

\* a full buffer with questions of both states, some solved outside it,
\* after a reset
MixedBufferAfterReset ==
    /\ resets > 0
    /\ Cardinality(processingBuffer) = BUFFER_SIZE
    /\ \E q \in processingBuffer : StateOf(q) = "extracted"
    /\ \E q \in processingBuffer : StateOf(q) = "solving"
    /\ \E i \in 1..Len(allQuestions) : StateOf(allQuestions[i]) = "solved"

\* C19: between two initializations at most one extraction call and at most
\* one solve call are submitted for any question.
NoSecondCall == ~resubmitted

\* C20: the files of a selection made in single-image mode are stored one
\* at a time in selection order, the j-th under the starting question number
\* incremented j-1 times; the files of a selection made in bulk mode are all
\* stored under the question number of the selection.
StoredOf(k) == SelectSeq(storedImages, LAMBDA im : im.dataUrl[1] = k)

RECURSIVE IncTimes(_, _)
IncTimes(questionNumber, n) ==
    IF n = 0 THEN questionNumber
    ELSE incrementQuestionNumber(IncTimes(questionNumber, n - 1))

FilesStoredByMode ==
    \A k \in 1..Len(selections) :
        IF selections[k].single
        THEN /\ \A j \in 1..Len(StoredOf(k)) :
                    /\ StoredOf(k)[j].dataUrl = << k, j >>
                    /\ StoredOf(k)[j].questionNumber = IncTimes(selections[k].start, j - 1)
             /\ {r \in readers : r[1] = k} \subseteq {<< k, Len(StoredOf(k)) + 1 >>}
        ELSE /\ \A j \in 1..Len(StoredOf(k)) :
                    StoredOf(k)[j].questionNumber = selections[k].start
             /\ \A i, j \in 1..Len(StoredOf(k)) :
                    StoredOf(k)[i].dataUrl = StoredOf(k)[j].dataUrl => i = j

\* a single-image selection and a bulk selection, of several files each, are
\* both stored completely, the single-image one counting from 9 to 10
BothModesStored ==
    \E k, m \in 1..Len(selections) :
        /\ selections[k].single /\ selections[k].files > 1
        /\ selections[k].start = << 57 >>
        /\ Len(StoredOf(k)) = selections[k].files
        /\ ~selections[m].single /\ selections[m].files > 1
        /\ Len(StoredOf(m)) = selections[m].files

\* C21: a processQuestion task started before a reset never passes the
\* eviction check after the reset (never goes on to set a state), even when the
\* reset re-admitted the same question number.
StaleTaskNeverPasses == "stalePassed" \notin observed

\* C22: whenever a drain loop reaches apiCallQueue.shift() after its rate-limit
\* wait, the queue is non-empty, also when a reset emptied it during the wait.
NeverShiftEmpty == ~crashed

\* C23: once a question's state is solved, no task writes its extractedText or
\* solvedText until the next reset.
SolvedTextsFrozen == "rewritten" \notin observed

\* C26: between two initializations each question is admitted into the buffer
\* at most once: a question whose task runs, finished or failed is not
\* admitted again.
AdmittedOnce ==
    /\ "readmitted" \notin observed
    /\ \A q \in admitted : StateOf(q) # "unsolved"

\* after a reset every question was admitted, fillBuffer ran again after a
\* task finished and after a task failed, and questions in each of the states
\* were passed over
AdmittedWithOthersBusy ==
    /\ resets > 0
    /\ lastCatch # NoCatch
    /\ Cardinality(admitted) = MaxQuestions
    /\ \E q \in admitted : StateOf(q) = "solved"
    /\ \E q \in processingBuffer : StateOf(q) = "solving"
    /\ \E q \in processingBuffer : StateOf(q) = "extracted"

\* C24: a call that was waiting in the queue when a reset cleared it is never
\* dispatched afterwards (no drain loop holds it, the queue does not hold it)
\* and its promise stays unsettled for ever, so the task awaiting it never
\* resumes.
QueuedAtResetNeverRuns ==
    \A p \in dropped :
        /\ p \in pending
        /\ \A i \in 1..Len(apiCallQueue) : apiCallQueue[i] # p
        /\ \A i \in 1..Len(loops) : loops[i].call # p
        /\ lastDispatched # p.seq

\* a reset dropped a queued call, and all the work started after the reset
\* has been done since
DroppedCallOutlived ==
    /\ dropped # {}
    /\ AllSolved
    /\ loops = << >>
    /\ lastDispatched = submitted

\* C25: when the Reset Processing button is never clicked, a drain loop is
\* active whenever the call queue is non-empty, isProcessingQueue is true
\* exactly while a loop runs, and every submitted call is eventually
\* dispatched and its promise settled, once and for its own task, given that
\* every remote call completes.
NoStrandedSubmission ==
    /\ [](apiCallQueue # << >> => loops # << >>)
    /\ [](isProcessingQueue <=> loops # << >>)
    /\ [](Len(loops) <= 1)
    /\ [](~misdelivered)
    /\ \A n \in 1..(2 * MaxQuestions) :
            (submitted >= n) ~> (lastDispatched >= n /\ \A p \in pending : p.seq # n)

\* with more questions than buffer slots and a service that answers, every
\* call was submitted behind another, dispatched and settled, and the drain
\* loop has ended
AllSubmissionsSettled ==
    /\ resets = 0
    /\ remote = {"ok"}
    /\ Len(allQuestions) = MaxQuestions
    /\ submitted = 2 * MaxQuestions
    /\ lastDispatched = submitted
    /\ pending = {}
    /\ ~isProcessingQueue
    /\ loops = << >>

====
